---- MODULE Spec2Model ----
(***************************************************************************)
(* Response segmentation and code-block classification of the terminal     *)
(* client: CLI.printResponse (preamble stripping) followed by              *)
(* ui.ProcessResponseWithCodeHighlight (line scan).                        *)
(*                                                                         *)
(* A Go string is modelled as a sequence of one-character strings, so that *)
(* trimming, lower-casing, prefix and substring tests, splitting and       *)
(* joining are computed rather than assumed.                               *)
(***************************************************************************)
EXTENDS Integers, Sequences, FiniteSets, TLC

\* ------------------------------------------------------------------ bounds
\* Largest number of lines of a raw response drawn by Init.
MaxLines == 4

\* Largest number of lines of a text in the runs with several calls.
MaxCallLines == 2

\* Largest number of lines of a reply in the runs under fairness.
MaxLiveLines == 3

\* ------------------------------------------------------- string primitives
SetMin(S) == CHOOSE x \in S : \A y \in S : x <= y
SetMax(S) == CHOOSE x \in S : \A y \in S : x >= y

\* unicode.IsSpace restricted to the characters the model can write
White == {" ", "\t", "\n", "\r", "\f"}

\* The backtick cannot be written inside a TLA+ string; this atom stands for it.
Backtick == "backtick"

commonLanguages ==
    << <<"p", "y", "t", "h", "o", "n">>,
       <<"j", "a", "v", "a", "s", "c", "r", "i", "p", "t">>,
       <<"j", "a", "v", "a">>,
       <<"g", "o">>,
       <<"r", "u", "s", "t">>,
       <<"c", "+", "+">>,
       <<"c">>,
       <<"p", "h", "p">>,
       <<"r", "u", "b", "y">>,
       <<"s", "w", "i", "f", "t">>,
       <<"k", "o", "t", "l", "i", "n">>,
       <<"t", "y", "p", "e", "s", "c", "r", "i", "p", "t">>,
       <<"h", "t", "m", "l">>,
       <<"c", "s", "s">>,
       <<"s", "q", "l">>,
       <<"b", "a", "s", "h">>,
       <<"s", "h", "e", "l", "l">>,
       <<"p", "o", "w", "e", "r", "s", "h", "e", "l", "l">>,
       <<"j", "s", "o", "n">>,
       <<"x", "m", "l">>,
       <<"y", "a", "m", "l">>,
       <<"d", "o", "c", "k", "e", "r", "f", "i", "l", "e">>,
       <<"m", "a", "r", "k", "d", "o", "w", "n">>,
       <<"t", "e", "x", "t">>,
       <<"p", "l", "a", "i", "n", "t", "e", "x", "t">>,
       <<"o", "u", "t", "p", "u", "t">> >>

explanationPatterns ==
    << <<"o", "u", "t", "p", "u", "t", ":">>,
       <<"h", "a", "s", "i", "l", ":">>,
       <<"c", "o", "n", "t", "o", "h", ":">>,
       <<"e", "x", "a", "m", "p", "l", "e", ":">>,
       <<"n", "o", "t", "e", ":">>,
       <<"c", "a", "t", "a", "t", "a", "n", ":">>,
       <<"k", "a", "l", "a", "u">>,
       <<"j", "i", "k", "a">>,
       <<"u", "n", "t", "u", "k">>,
       <<"i", "n", "i", " ", "a", "k", "a", "n">>,
       <<"k", "o", "d", " ", "i", "n", "i">>,
       <<"a", "w", "a", "k", " ", "b", "o", "l", "e", "h">>,
       <<"s", "a", "y", "a">>,
       <<"a", "n", "d", "a">>,
       <<"b", "i", "l", "a">>,
       <<"a", "p", "a", "b", "i", "l", "a">>,
       <<"n", "a", "k", " ", "s", "a", "y", "a">>,
       <<"b", "o", "l", "e", "h", " ", "j", "u", "g", "a">>,
       <<"t", "h", "i", "s", " ", "w", "i", "l", "l">>,
       <<"t", "h", "i", "s", " ", "c", "o", "d", "e">>,
       <<"y", "o", "u", " ", "c", "a", "n">>,
       <<"i", "f", " ", "y", "o", "u">>,
       <<"w", "h", "e", "n", " ", "y", "o", "u">>,
       <<"1", ".">>,
       <<"2", ".">>,
       <<"3", ".">>,
       <<"4", ".">>,
       <<"5", ".">> >>

ThoughtFor == <<"T", "h", "o", "u", "g", "h", "t", " ", "f", "o", "r">>
Upper == <<"A", "B", "C", "D", "E", "F", "G", "H", "I", "J", "K", "L", "M", "N", "O", "P", "Q", "R", "S", "T", "U", "V", "W", "X", "Y", "Z">>
Lower == <<"a", "b", "c", "d", "e", "f", "g", "h", "i", "j", "k", "l", "m", "n", "o", "p", "q", "r", "s", "t", "u", "v", "w", "x", "y", "z">>
Digits == <<"0", "1", "2", "3", "4", "5", "6", "7", "8", "9">>

ToLowerChar(c) ==
    IF \E k \in 1..Len(Upper) : Upper[k] = c
    THEN Lower[CHOOSE k \in 1..Len(Upper) : Upper[k] = c]
    ELSE c

\* strings.ToLower
ToLower(s) == [k \in 1..Len(s) |-> ToLowerChar(s[k])]

\* strings.TrimSpace
TrimSpace(s) ==
    LET keep == {k \in 1..Len(s) : s[k] \notin White}
    IN  IF keep = {} THEN <<>> ELSE SubSeq(s, SetMin(keep), SetMax(keep))

\* strings.HasPrefix
HasPrefix(s, p) == Len(s) >= Len(p) /\ SubSeq(s, 1, Len(p)) = p

\* strings.Contains
Contains(s, p) == \E k \in 0..(Len(s) - Len(p)) : SubSeq(s, k + 1, k + Len(p)) = p

\* strings.Split(s, "\n"): the empty string splits into one empty line
RECURSIVE Split(_)
Split(s) ==
    LET nl == {k \in 1..Len(s) : s[k] = "\n"}
    IN  IF nl = {} THEN <<s>>
        ELSE <<SubSeq(s, 1, SetMin(nl) - 1)>> \o Split(SubSeq(s, SetMin(nl) + 1, Len(s)))

\* strings.Join(ls, "\n")
RECURSIVE Join(_)
Join(ls) ==
    IF ls = <<>> THEN <<>>
    ELSE IF Len(ls) = 1 THEN ls[1]
    ELSE ls[1] \o <<"\n">> \o Join(Tail(ls))

\* ------------------------------------------------------------ preprocessor
\* variant of printResponsePre: strips preamble lines for as long as the text
\* starts with one
RECURSIVE stripRepeat(_)
stripRepeat(r) ==
    IF HasPrefix(r, ThoughtFor) /\ Len(Split(r)) > 1
    THEN stripRepeat(Join(Tail(Split(r))))
    ELSE r

printResponsePreRepeat(response) == stripRepeat(TrimSpace(response))

\* CLI.printResponse, up to the call of the classifier
printResponsePre(response) ==
    LET r == TrimSpace(response)
    IN  IF HasPrefix(r, ThoughtFor) /\ Len(Split(r)) > 1
        THEN Join(Tail(Split(r)))
        ELSE r

\* --------------------------------------------------------- line predicates
isLanguageDeclaration(line) ==
    ToLower(TrimSpace(line)) \in {commonLanguages[k] : k \in 1..Len(commonLanguages)}

isIndentedCodeLine(line) ==
    HasPrefix(line, <<" ", " ", " ", " ">>) \/ HasPrefix(line, <<"\t">>)

isExplanationLine(line) ==
    \E k \in 1..Len(explanationPatterns) : Contains(ToLower(line), explanationPatterns[k])

CopyLabel == <<"C", "o", "p", "y">>
EditLabel == <<"E", "d", "i", "t">>

isCopyEdit(line) == TrimSpace(line) = CopyLabel \/ TrimSpace(line) = EditLabel

\* ----------------------------------------------------------- fence regexes
Tilde3 == <<"~", "~", "~">>
Backtick3 == <<Backtick, Backtick, Backtick>>

\* the character class [A-Za-z0-9+#._-] of the language tag
TagChars ==
    {Upper[k] : k \in 1..Len(Upper)} \cup {Lower[k] : k \in 1..Len(Lower)}
        \cup {Digits[k] : k \in 1..Len(Digits)} \cup {"+", "#", ".", "_", "-"}

\* fenceStart: ^\s*(BBB|~~~)\s*([A-Za-z0-9+#._-]*)\s*$, B the backtick;
\* the tag is what follows the token, trimmed
fenceTag(line) == TrimSpace(SubSeq(TrimSpace(line), 4, Len(TrimSpace(line))))

fenceStartMatches(line) ==
    /\ HasPrefix(TrimSpace(line), Backtick3) \/ HasPrefix(TrimSpace(line), Tilde3)
    /\ \A k \in 1..Len(fenceTag(line)) : fenceTag(line)[k] \in TagChars

\* parseFenceStart
parseFenceStart(line) ==
    IF fenceStartMatches(line)
    THEN [ok |-> TRUE, lang |-> ToLower(fenceTag(line))]
    ELSE [ok |-> FALSE, lang |-> <<>>]

\* isFenceEnd: fenceEnd is ^\s*(BBB|~~~)\s*$
isFenceEnd(line) == TrimSpace(line) \in {Backtick3, Tilde3}

\* the pattern of the preamble artifact: Thought for, digits, s
ThoughtForSp == ThoughtFor \o <<" ">>

isThoughtLine(s) ==
    /\ HasPrefix(s, ThoughtForSp)
    /\ Len(s) >= Len(ThoughtForSp) + 2
    /\ s[Len(s)] = "s"
    /\ \A k \in (Len(ThoughtForSp) + 1)..(Len(s) - 1) :
           \E d \in 1..Len(Digits) : s[k] = Digits[d]

\* ------------------------------------------------------------ line scanner
\* Exclusive upper offset of the Copy/Edit lookahead (j < i+3)
ArtifactWindow == 3

\* variant of countCopyEdit: runs on while label lines follow, without limit
RECURSIVE countCopyEditUnbounded(_, _, _)
countCopyEditUnbounded(ls, j, limit) ==
    IF j > Len(ls) THEN 0
    ELSE IF isCopyEdit(ls[j]) THEN 1 + countCopyEditUnbounded(ls, j + 1, limit)
    ELSE 0

\* the Copy/Edit lookahead loop: consecutive label lines from j, below limit
RECURSIVE countCopyEdit(_, _, _)
countCopyEdit(ls, j, limit) ==
    IF j > Len(ls) \/ j >= limit THEN 0
    ELSE IF isCopyEdit(ls[j]) THEN 1 + countCopyEdit(ls, j + 1, limit)
    ELSE 0

\* variant of skipAfterLanguage: counts the labels of the window without
\* stopping at the first line that is not one
skipAfterLanguageNoBreak(ls, k) ==
    Cardinality({j \in (k + 1)..(k + ArtifactWindow - 1) :
                    j <= Len(ls) /\ isCopyEdit(ls[j])})

\* variant of skipAfterLanguage: the lookahead reaches one line further
skipAfterLanguageWide(ls, k) == countCopyEdit(ls, k + 1, k + ArtifactWindow + 1)

\* variant of skipAfterLanguage: a blank line right behind the declaration is
\* skipped like a label
skipAfterLanguageBlanks(ls, k) ==
    IF k + 1 <= Len(ls) /\ TrimSpace(ls[k + 1]) = <<>> THEN 1
    ELSE countCopyEdit(ls, k + 1, k + ArtifactWindow)

\* skipCount - 1: the value stored in skipNext by a language declaration at k
skipAfterLanguage(ls, k) == countCopyEdit(ls, k + 1, k + ArtifactWindow)

\* variant of shouldEndCodeBlock: every blank line ends the block
shouldEndCodeBlockAnyBlank(ls, k) == TrimSpace(ls[k]) = <<>>

\* variant of shouldEndCodeBlock: the indentation of the next line is ignored
shouldEndCodeBlockNoIndent(ls, k) ==
    /\ TrimSpace(ls[k]) = <<>>
    /\ k + 1 <= Len(ls)
    /\ TrimSpace(ls[k + 1]) # <<>>
    /\ ~isLanguageDeclaration(TrimSpace(ls[k + 1]))
    /\ isExplanationLine(TrimSpace(ls[k + 1]))

\* the end-of-block test made on line k while a block is open
shouldEndCodeBlock(ls, k) ==
    /\ TrimSpace(ls[k]) = <<>>
    /\ k + 1 <= Len(ls)
    /\ TrimSpace(ls[k + 1]) # <<>>
    /\ ~isIndentedCodeLine(ls[k + 1])
    /\ ~isLanguageDeclaration(TrimSpace(ls[k + 1]))
    /\ isExplanationLine(TrimSpace(ls[k + 1]))

\* variant of afterEndCheck: closes the block but keeps the language
afterEndCheckKeepLang(ls, k, inCode, lang) ==
    IF inCode /\ shouldEndCodeBlock(ls, k)
    THEN [inCodeBlock |-> FALSE, codeLang |-> lang]
    ELSE [inCodeBlock |-> inCode, codeLang |-> lang]

\* scan state after the end-of-block test on line k
afterEndCheck(ls, k, inCode, lang) ==
    IF inCode /\ shouldEndCodeBlock(ls, k)
    THEN [inCodeBlock |-> FALSE, codeLang |-> <<>>]
    ELSE [inCodeBlock |-> inCode, codeLang |-> lang]

\* variant of ResponseLine: appends before the end-of-block test takes effect
ResponseLineStale(line, before, after) ==
    [Text |-> line, IsCode |-> before.inCodeBlock, Language |-> before.codeLang]

\* variant of ResponseLine: appends the trimmed line
ResponseLineTrimmed(line, before, after) ==
    [Text |-> TrimSpace(line), IsCode |-> after.inCodeBlock, Language |-> after.codeLang]

\* the ResponseLine appended for a line: before/after are the scan states
\* around the end-of-block test
ResponseLine(line, before, after) ==
    [Text |-> line, IsCode |-> after.inCodeBlock, Language |-> after.codeLang]

\* scan state at function entry
scanInit == [i |-> 1, inCodeBlock |-> FALSE, codeLang |-> <<>>, skipNext |-> 0,
             result |-> <<>>]

\* loop body, branch "skipNext > 0"
stepSkip(st) == [st EXCEPT !.skipNext = st.skipNext - 1, !.i = st.i + 1]

\* variant of stepLanguage: the language is recorded but no block is opened
stepLanguageNoOpen(ls, st) ==
    [st EXCEPT !.codeLang = TrimSpace(ls[st.i]),
               !.skipNext = skipAfterLanguage(ls, st.i),
               !.i = st.i + 1]

\* variant of stepLanguage: the line index is not advanced
stepLanguageStuck(ls, st) ==
    [st EXCEPT !.codeLang = TrimSpace(ls[st.i]),
               !.inCodeBlock = TRUE,
               !.skipNext = skipAfterLanguage(ls, st.i)]

\* variant of stepLanguage: a declaration met inside an open block neither
\* replaces the language nor looks for labels
stepLanguageOnce(ls, st) ==
    IF st.inCodeBlock THEN [st EXCEPT !.i = st.i + 1]
    ELSE [st EXCEPT !.codeLang = TrimSpace(ls[st.i]),
                    !.inCodeBlock = TRUE,
                    !.skipNext = skipAfterLanguage(ls, st.i),
                    !.i = st.i + 1]

\* loop body, branch "language declaration"
stepLanguage(ls, st) ==
    [st EXCEPT !.codeLang = TrimSpace(ls[st.i]),
               !.inCodeBlock = TRUE,
               !.skipNext = skipAfterLanguage(ls, st.i),
               !.i = st.i + 1]

\* loop body, fall-through: end-of-block test, then append
stepEmit(ls, st) ==
    LET before == [inCodeBlock |-> st.inCodeBlock, codeLang |-> st.codeLang]
        after  == afterEndCheck(ls, st.i, st.inCodeBlock, st.codeLang)
    IN  [st EXCEPT !.inCodeBlock = after.inCodeBlock,
                   !.codeLang = after.codeLang,
                   !.result = Append(st.result, ResponseLine(ls[st.i], before, after)),
                   !.i = st.i + 1]

\* the whole loop, run from scan state st
RECURSIVE scanFrom(_, _)
scanFrom(ls, st) ==
    IF st.i > Len(ls) THEN st.result
    ELSE IF st.skipNext > 0 THEN scanFrom(ls, stepSkip(st))
    ELSE IF isLanguageDeclaration(TrimSpace(ls[st.i])) THEN scanFrom(ls, stepLanguage(ls, st))
    ELSE scanFrom(ls, stepEmit(ls, st))

\* ui.ProcessResponseWithCodeHighlight as a function of its argument
ProcessResponseWithCodeHighlight(text) == scanFrom(Split(text), scanInit)

\* ------------------------------------------------------------------ inputs
BlankLine    == <<>>
GoLine       == <<"g", "o">>
CopyLine     == <<"C", "o", "p", "y">>
EditLine     == <<" ", "E", "d", "i", "t">>
CodeLine     == <<"x">>
ExplainLine  == <<"1", ".", "x">>
FenceGoLine  == <<Backtick, Backtick, Backtick, "g", "o">>
FenceLine    == <<Backtick, Backtick, Backtick>>
ThoughtLine  == <<"T", "h", "o", "u", "g", "h", "t", " ", "f", "o", "r", " ", "4", "s">>
ThoughtXLine == <<"T", "h", "o", "u", "g", "h", "t", " ", "f", "o", "r", " ", "x">>
InteriorLine == <<"x", "1", ".">>
TabbedLine   == <<"\t", "1", ".">>
SpacedLine   == <<" ", " ", " ", " ", "1", ".">>
GoCapLine    == <<" ", "G", "o">>
CLine        == <<"c">>

\* lines of the scanner runs: triggers, labels, fences, code and explanation
ScanAlphabet == {BlankLine, GoLine, CopyLine, EditLine, CodeLine, ExplainLine,
                 FenceGoLine, FenceLine}

\* lines of the preprocessor runs: the preamble artifact in front of a reply
PreAlphabet == {ThoughtLine, ThoughtXLine, BlankLine, GoLine, CopyLine, CodeLine,
                ExplainLine}

\* lines of the direct calls of the classifier: the looked-ahead line kinds
DirectAlphabet == {BlankLine, GoLine, CopyLine, CodeLine, ExplainLine,
                   InteriorLine, TabbedLine, SpacedLine}

\* lines of the runs with several calls
CallAlphabet == {BlankLine, GoLine, CopyLine, ExplainLine}

\* lines of the runs on triggers written in upper and lower case
CaseAlphabet == {BlankLine, GoLine, GoCapLine, CLine, CopyLine, CodeLine}

CallInputs == {Join(ls) : ls \in UNION {[1..n -> CallAlphabet] : n \in 0..MaxCallLines}}

LineSeqs(A) == UNION {[1..n -> A] : n \in 0..MaxLines}

RawInputs(A) == {Join(ls) : ls \in LineSeqs(A)}

\* ------------------------------------------------- configuration: state
\* goroutines that use the configuration
Callers == {1, 2}

\* calls made on the configuration in one run
MaxConfigCalls == 3

\* configs/config.json on disk
ConfigFiles == {"missing", "garbage", "valid"}

\* loadConfigFromFile: the configuration and the error it returns
loadConfigFromFile(file) ==
    IF file = "missing" THEN [config |-> "default", err |-> "read"]
    ELSE IF file = "garbage" THEN [config |-> "default", err |-> "parse"]
    ELSE [config |-> "file", err |-> "nil"]

\* configFile    configs/config.json
\* mu            DynamicConfig.mu is locked
\* configOnce    configOnce has run its function
\* onceBusy      a goroutine is inside configOnce.Do
\* globalConfig  the package variable globalConfig
\* fileLoads     calls of loadConfigFromFile so far
\* cpc, cfn      position and entered method of each goroutine
\* cerr          the local err of the call of each goroutine
\* calls         the finished calls: method, returned configuration and error
VARIABLES configFile, mu, configOnce, onceBusy, globalConfig, fileLoads,
          cpc, cfn, cerr, calls

configVars == <<configFile, mu, configOnce, onceBusy, globalConfig, fileLoads,
                cpc, cfn, cerr, calls>>

\* the configuration package before any call
ConfigIdle ==
    /\ configFile = "valid"
    /\ mu = FALSE
    /\ configOnce = FALSE
    /\ onceBusy = FALSE
    /\ globalConfig = "nil"
    /\ fileLoads = 0
    /\ cpc = [p \in Callers |-> "idle"]
    /\ cfn = [p \in Callers |-> "none"]
    /\ cerr = [p \in Callers |-> "nil"]
    /\ calls = <<>>

\* ------------------------------------------------------- spinner: state
\* calls made on the spinner in one run
MaxSpinnerCalls == 4

\* messages passed to Start and Update
Messages == {"init", "load"}

\* the frames of NewSquareSpinner, by the side of the filled half
frames == <<"left", "top", "right", "bottom">>

\* active    Spinner.active
\* anims     the animation goroutines alive: captured message, position, i
\*           (i is kept modulo len(frames), the only way it is used)
\* spos      position of the caller inside Stop
\* screen    the last thing printed on the terminal line
\* updated   message of the last Update that printed since the last Start
\* started   message of the last Start that launched a goroutine
\* spinCalls calls made so far
VARIABLES active, anims, spos, screen, updated, started, spinCalls

spinnerVars == <<active, anims, spos, screen, updated, started, spinCalls>>

\* a spinner fresh from its constructor
SpinnerIdle ==
    /\ active = FALSE
    /\ anims = <<>>
    /\ spos = "idle"
    /\ screen = [kind |-> "none", frame |-> "none", msg |-> "none"]
    /\ updated = "none"
    /\ started = "none"
    /\ spinCalls = 0

\* ---------------------------------------------------- file access: state
\* components of a file name handed to ReadFile
MaxPathParts == 3

\* os.Getwd() of the agent
workingDir == <<"/", "w">>

\* FileOperations.allowedExts
allowedExts == {
    <<".", "g", "o">>,
    <<".", "p", "y">>,
    <<".", "j", "s">>,
    <<".", "t", "s">>,
    <<".", "j", "a", "v", "a">>,
    <<".", "r", "s">>,
    <<".", "c", "p", "p">>,
    <<".", "c">>,
    <<".", "h">>,
    <<".", "m", "d">>,
    <<".", "t", "x", "t">>,
    <<".", "j", "s", "o", "n">>,
    <<".", "y", "a", "m", "l">>,
    <<".", "y", "m", "l">>,
    <<".", "t", "o", "m", "l">>,
    <<".", "x", "m", "l">>,
    <<".", "h", "t", "m", "l">>,
    <<".", "c", "s", "s">>,
    <<".", "s", "q", "l">>,
    <<".", "s", "h">>,
    <<".", "b", "a", "t">>,
    <<".", "d", "o", "c", "k", "e", "r", "f", "i", "l", "e">>,
    <<".", "g", "i", "t", "i", "g", "n", "o", "r", "e">>,
    <<".", "e", "n", "v">>,
    <<"m", "a", "k", "e", "f", "i", "l", "e">>}

\* the names tested by isSpecialFile
specialFiles == {
    <<"M", "a", "k", "e", "f", "i", "l", "e">>,
    <<"D", "o", "c", "k", "e", "r", "f", "i", "l", "e">>,
    <<"R", "E", "A", "D", "M", "E">>,
    <<"L", "I", "C", "E", "N", "S", "E">>,
    <<"C", "H", "A", "N", "G", "E", "L", "O", "G">>,
    <<"g", "o", ".", "m", "o", "d">>,
    <<"g", "o", ".", "s", "u", "m">>,
    <<"p", "a", "c", "k", "a", "g", "e", ".", "j", "s", "o", "n">>,
    <<"r", "e", "q", "u", "i", "r", "e", "m", "e", "n", "t", "s", ".", "t", "x", "t">>}

\* FileOperations.maxFileSize
maxFileSize == 10 * 1024 * 1024

\* fileName  the argument of ReadFile, as its components between slashes
\* fullPath  the local fullPath
\* fileRet   the returned content and error
\* touched   the paths given to os.Stat and os.ReadFile so far
\* fpc       position inside ReadFile
VARIABLES fileName, fullPath, fileRet, touched, fpc

fileVars == <<fileName, fullPath, fileRet, touched, fpc>>

\* no call of ReadFile under way
FilesIdle ==
    /\ fileName = <<>>
    /\ fullPath = <<>>
    /\ fileRet = [content |-> <<>>, err |-> "nil"]
    /\ touched = {}
    /\ fpc = "idle"

\* ------------------------------------------------------- cookies: state
\* calls of EnsureCookiesFile in one run
MaxEnsureCalls == 2

\* what the cookies file can hold: nothing, the empty JSON array, a cookie
\* array, or bytes that are not a JSON cookie array
CookieContents == {"empty", "noCookies", "cookies", "junk", "scrap"}

\* json.Unmarshal(data, &cookies) succeeds
parsesAsCookies(data) == data \in {"noCookies", "cookies"}

\* cookiesFile  the bytes of the cookies file, or "absent"
\* backups      the bytes written to backup files so far
\* kpc          position inside EnsureCookiesFile
\* kdata        the local data of backupAndRecreate
\* kerr         the returned error
\* overwrote    the contents that were replaced by the empty cookie array
\* ensureCalls  calls of EnsureCookiesFile so far
VARIABLES cookiesFile, backups, kpc, kdata, kerr, overwrote, ensureCalls

cookieVars == <<cookiesFile, backups, kpc, kdata, kerr, overwrote, ensureCalls>>

\* no call of EnsureCookiesFile under way
CookiesIdle ==
    /\ cookiesFile = "absent"
    /\ backups = {}
    /\ kpc = "idle"
    /\ kdata = "none"
    /\ kerr = "nil"
    /\ overwrote = {}
    /\ ensureCalls = 0

\* the state outside the line scanner
sideVars == <<configVars, spinnerVars, fileVars, cookieVars>>

SideIdle == ConfigIdle /\ SpinnerIdle /\ FilesIdle /\ CookiesIdle

\* ------------------------------------------------------------------- state
\* raw       the reply handed to printResponse
\* response  the text handed to ProcessResponseWithCodeHighlight
\* lines .. result   the locals of ProcessResponseWithCodeHighlight
\* emitted   for each element of result, the index of the line it came from
\* pc        position: start, call, loop, done
\* pending   texts the caller will classify after the current one
\* history   the finished calls: argument and returned sequence
VARIABLES raw, response, lines, i, inCodeBlock, codeLang, skipNext, result,
          emitted, pc, pending, history

scanVars == <<raw, response, lines, i, inCodeBlock, codeLang, skipNext, result,
              emitted, pc, pending, history>>

vars == <<scanVars, sideVars>>

cur == [i |-> i, inCodeBlock |-> inCodeBlock, codeLang |-> codeLang,
        skipNext |-> skipNext, result |-> result]

setCur(st) ==
    /\ i' = st.i
    /\ inCodeBlock' = st.inCodeBlock
    /\ codeLang' = st.codeLang
    /\ skipNext' = st.skipNext
    /\ result' = st.result

InitOver(A) ==
    /\ raw \in RawInputs(A)
    /\ response = <<>>
    /\ lines = <<>>
    /\ i = 0
    /\ inCodeBlock = FALSE
    /\ codeLang = <<>>
    /\ skipNext = 0
    /\ result = <<>>
    /\ emitted = <<>>
    /\ pc = "start"
    /\ pending = <<>>
    /\ history = <<>>
    /\ SideIdle

Init == InitOver(ScanAlphabet)

InitPre == InitOver(PreAlphabet)

\* a caller about to hand text to ProcessResponseWithCodeHighlight, with more
\* texts to classify afterwards
InitCall(text, more) ==
    /\ raw = text
    /\ response = text
    /\ lines = <<>>
    /\ i = 0
    /\ inCodeBlock = FALSE
    /\ codeLang = <<>>
    /\ skipNext = 0
    /\ result = <<>>
    /\ emitted = <<>>
    /\ pc = "call"
    /\ pending = more
    /\ history = <<>>
    /\ SideIdle

\* one direct call of the classifier
InitDirect == \E text \in RawInputs(DirectAlphabet) : InitCall(text, <<>>)

\* one direct call on a text with triggers in either case
InitCase == \E text \in RawInputs(CaseAlphabet) : InitCall(text, <<>>)

\* three calls in a row: a text, any other text, the first text again
InitCalls == \E a \in CallInputs : \E b \in CallInputs : InitCall(a, <<b, a>>)

\* printResponse: trim, strip the preamble line, hand over to the classifier
Preprocess ==
    /\ pc = "start"
    /\ response' = printResponsePre(raw)
    /\ pc' = "call"
    /\ UNCHANGED <<raw, lines, i, inCodeBlock, codeLang, skipNext, result, emitted,
                   pending, history>>
    /\ UNCHANGED sideVars

\* ProcessResponseWithCodeHighlight: split and initialise the scan state
\* variant of Enter: the block state is kept from the previous call, as if
\* inCodeBlock and codeLang were package-level variables
EnterStale ==
    /\ pc = "call"
    /\ lines' = Split(response)
    /\ setCur([scanInit EXCEPT !.inCodeBlock = inCodeBlock, !.codeLang = codeLang])
    /\ emitted' = <<>>
    /\ pc' = "loop"
    /\ UNCHANGED <<raw, response, pending, history>>
    /\ UNCHANGED sideVars

Enter ==
    /\ pc = "call"
    /\ lines' = Split(response)
    /\ setCur(scanInit)
    /\ emitted' = <<>>
    /\ pc' = "loop"
    /\ UNCHANGED <<raw, response, pending, history>>
    /\ UNCHANGED sideVars

\* one iteration in skip mode
LoopSkip ==
    /\ pc = "loop"
    /\ i <= Len(lines)
    /\ skipNext > 0
    /\ setCur(stepSkip(cur))
    /\ UNCHANGED <<raw, response, lines, emitted, pc, pending, history>>
    /\ UNCHANGED sideVars

\* one iteration on a language declaration line
LoopLanguage ==
    /\ pc = "loop"
    /\ i <= Len(lines)
    /\ skipNext = 0
    /\ isLanguageDeclaration(TrimSpace(lines[i]))
    /\ setCur(stepLanguage(lines, cur))
    /\ UNCHANGED <<raw, response, lines, emitted, pc, pending, history>>
    /\ UNCHANGED sideVars

\* one iteration that appends the line to the result
LoopEmit ==
    /\ pc = "loop"
    /\ i <= Len(lines)
    /\ skipNext = 0
    /\ ~isLanguageDeclaration(TrimSpace(lines[i]))
    /\ setCur(stepEmit(lines, cur))
    /\ emitted' = Append(emitted, i)
    /\ UNCHANGED <<raw, response, lines, pc, pending, history>>
    /\ UNCHANGED sideVars

\* loop exit and return
Return ==
    /\ pc = "loop"
    /\ i > Len(lines)
    /\ pc' = "done"
    /\ UNCHANGED <<raw, response, lines, i, inCodeBlock, codeLang, skipNext,
                   result, emitted, pending, history>>
    /\ UNCHANGED sideVars

\* the caller keeps the returned sequence and calls the classifier on its
\* next text; the locals of the finished call are dead storage
CallAgain ==
    /\ pc = "done"
    /\ pending # <<>>
    /\ history' = Append(history, [text |-> response, out |-> result])
    /\ raw' = Head(pending)
    /\ response' = Head(pending)
    /\ pending' = Tail(pending)
    /\ pc' = "call"
    /\ UNCHANGED <<lines, i, inCodeBlock, codeLang, skipNext, result, emitted>>
    /\ UNCHANGED sideVars

Next ==
    \/ Preprocess
    \/ Enter
    \/ LoopSkip
    \/ LoopLanguage
    \/ LoopEmit
    \/ Return

Spec == Init /\ [][Next]_vars

SpecPre == InitPre /\ [][Next]_vars

LiveInputs == {Join(ls) : ls \in UNION {[1..n -> CallAlphabet] : n \in 0..MaxLiveLines}}

\* before a reply has arrived
InitIdle ==
    /\ raw = <<>>
    /\ response = <<>>
    /\ lines = <<>>
    /\ i = 0
    /\ inCodeBlock = FALSE
    /\ codeLang = <<>>
    /\ skipNext = 0
    /\ result = <<>>
    /\ emitted = <<>>
    /\ pc = "idle"
    /\ pending = <<>>
    /\ history = <<>>
    /\ SideIdle

\* the reply arrives and printResponse is called with it
Receive ==
    /\ pc = "idle"
    /\ raw' \in LiveInputs
    /\ pc' = "start"
    /\ UNCHANGED <<response, lines, i, inCodeBlock, codeLang, skipNext, result,
                   emitted, pending, history>>
    /\ UNCHANGED sideVars

NextLive ==
    \/ Receive
    \/ Preprocess
    \/ Enter
    \/ LoopSkip
    \/ LoopLanguage
    \/ LoopEmit
    \/ Return

\* the pipeline under weak fairness: a started call keeps running
SpecLive == InitIdle /\ [][NextLive]_vars /\ WF_vars(NextLive)

\* the classifier called directly, without printResponse in front
NextDirect ==
    \/ Enter
    \/ LoopSkip
    \/ LoopLanguage
    \/ LoopEmit
    \/ Return

SpecDirect == InitDirect /\ [][NextDirect]_vars

SpecCase == InitCase /\ [][NextDirect]_vars

\* several calls of the classifier by one caller
NextCalls ==
    \/ Enter
    \/ LoopSkip
    \/ LoopLanguage
    \/ LoopEmit
    \/ Return
    \/ CallAgain

SpecCalls == InitCalls /\ [][NextCalls]_vars

TypeOK ==
    /\ pc \in {"idle", "start", "call", "loop", "done"}
    /\ skipNext \in 0..2
    /\ inCodeBlock \in BOOLEAN
    /\ Len(emitted) = Len(result)

\* --------------------------------------------------------- configuration
\* the line scanner at rest
ScanIdle ==
    /\ raw = <<>>
    /\ response = <<>>
    /\ lines = <<>>
    /\ i = 0
    /\ inCodeBlock = FALSE
    /\ codeLang = <<>>
    /\ skipNext = 0
    /\ result = <<>>
    /\ emitted = <<>>
    /\ pc = "idle"
    /\ pending = <<>>
    /\ history = <<>>

\* calls entered so far, finished or not
ConfigCallsMade == Len(calls) + Cardinality({p \in Callers : cpc[p] # "idle"})

\* outcomes of SaveConfig: nil, or the step that failed
SaveOutcomes == {"nil", "mkdir", "marshal", "write"}

InitConfig ==
    /\ ScanIdle
    /\ configFile \in ConfigFiles
    /\ mu = FALSE
    /\ configOnce = FALSE
    /\ onceBusy = FALSE
    /\ globalConfig = "nil"
    /\ fileLoads = 0
    /\ cpc = [p \in Callers |-> "idle"]
    /\ cfn = [p \in Callers |-> "none"]
    /\ cerr = [p \in Callers |-> "nil"]
    /\ calls = <<>>
    /\ SpinnerIdle
    /\ FilesIdle
    /\ CookiesIdle

\* LoadDynamicConfig is entered: var err error
CallLoad(p) ==
    /\ cpc[p] = "idle"
    /\ ConfigCallsMade < MaxConfigCalls
    /\ cpc' = [cpc EXCEPT ![p] = "once"]
    /\ cfn' = [cfn EXCEPT ![p] = "LoadDynamicConfig"]
    /\ cerr' = [cerr EXCEPT ![p] = "nil"]
    /\ UNCHANGED <<configFile, mu, configOnce, onceBusy, globalConfig, fileLoads, calls>>
    /\ UNCHANGED <<scanVars, spinnerVars, fileVars, cookieVars>>

\* configOnce.Do when the function has already run: nothing is called
OnceDone(p) ==
    /\ cpc[p] = "once"
    /\ configOnce
    /\ cpc' = [cpc EXCEPT ![p] = "ret"]
    /\ UNCHANGED <<configFile, mu, configOnce, onceBusy, globalConfig, fileLoads,
                   cfn, cerr, calls>>
    /\ UNCHANGED <<scanVars, spinnerVars, fileVars, cookieVars>>

\* configOnce.Do by the first goroutine: the others wait until it has finished
OnceEnter(p) ==
    /\ cpc[p] = "once"
    /\ ~configOnce
    /\ ~onceBusy
    /\ onceBusy' = TRUE
    /\ cpc' = [cpc EXCEPT ![p] = "load"]
    /\ UNCHANGED <<configFile, mu, configOnce, globalConfig, fileLoads, cfn, cerr, calls>>
    /\ UNCHANGED <<scanVars, spinnerVars, fileVars, cookieVars>>

\* the function passed to configOnce.Do: globalConfig, err = loadConfigFromFile()
LoadFile(p) ==
    /\ cpc[p] = "load"
    /\ globalConfig' = loadConfigFromFile(configFile).config
    /\ cerr' = [cerr EXCEPT ![p] = loadConfigFromFile(configFile).err]
    /\ fileLoads' = fileLoads + 1
    /\ configOnce' = TRUE
    /\ onceBusy' = FALSE
    /\ cpc' = [cpc EXCEPT ![p] = "ret"]
    /\ UNCHANGED <<configFile, mu, cfn, calls>>
    /\ UNCHANGED <<scanVars, spinnerVars, fileVars, cookieVars>>

\* return globalConfig, err
LoadReturn(p) ==
    /\ cpc[p] = "ret"
    /\ calls' = Append(calls, [fn |-> cfn[p], config |-> globalConfig, err |-> cerr[p]])
    /\ cpc' = [cpc EXCEPT ![p] = "idle"]
    /\ cfn' = [cfn EXCEPT ![p] = "none"]
    /\ UNCHANGED <<configFile, mu, configOnce, onceBusy, globalConfig, fileLoads, cerr>>
    /\ UNCHANGED <<scanVars, spinnerVars, fileVars, cookieVars>>

\* SaveConfig is called on the loaded configuration
CallSave(p) ==
    /\ cpc[p] = "idle"
    /\ globalConfig # "nil"
    /\ ConfigCallsMade < MaxConfigCalls
    /\ cpc' = [cpc EXCEPT ![p] = "save.lock"]
    /\ cfn' = [cfn EXCEPT ![p] = "SaveConfig"]
    /\ UNCHANGED <<configFile, mu, configOnce, onceBusy, globalConfig, fileLoads,
                   cerr, calls>>
    /\ UNCHANGED <<scanVars, spinnerVars, fileVars, cookieVars>>

\* SetValue is called on the loaded configuration
CallSet(p) ==
    /\ cpc[p] = "idle"
    /\ globalConfig # "nil"
    /\ ConfigCallsMade < MaxConfigCalls
    /\ cpc' = [cpc EXCEPT ![p] = "set.lock"]
    /\ cfn' = [cfn EXCEPT ![p] = "SetValue"]
    /\ UNCHANGED <<configFile, mu, configOnce, onceBusy, globalConfig, fileLoads,
                   cerr, calls>>
    /\ UNCHANGED <<scanVars, spinnerVars, fileVars, cookieVars>>

\* SetValue: c.mu.Lock(), then return c.SaveConfig() enters SaveConfig
SetLock(p) ==
    /\ cpc[p] = "set.lock"
    /\ ~mu
    /\ mu' = TRUE
    /\ cpc' = [cpc EXCEPT ![p] = "save.lock"]
    /\ UNCHANGED <<configFile, configOnce, onceBusy, globalConfig, fileLoads, cfn,
                   cerr, calls>>
    /\ UNCHANGED <<scanVars, spinnerVars, fileVars, cookieVars>>

\* SaveConfig: c.mu.Lock()
SaveLock(p) ==
    /\ cpc[p] = "save.lock"
    /\ ~mu
    /\ mu' = TRUE
    /\ cpc' = [cpc EXCEPT ![p] = "save.write"]
    /\ UNCHANGED <<configFile, configOnce, onceBusy, globalConfig, fileLoads, cfn,
                   cerr, calls>>
    /\ UNCHANGED <<scanVars, spinnerVars, fileVars, cookieVars>>

\* SaveConfig: MkdirAll, MarshalIndent, WriteFile
SaveWrite(p) ==
    /\ cpc[p] = "save.write"
    /\ \E outcome \in SaveOutcomes :
           /\ cerr' = [cerr EXCEPT ![p] = outcome]
           /\ configFile' = IF outcome = "nil" THEN "valid" ELSE configFile
    /\ cpc' = [cpc EXCEPT ![p] = "save.ret"]
    /\ UNCHANGED <<mu, configOnce, onceBusy, globalConfig, fileLoads, cfn, calls>>
    /\ UNCHANGED <<scanVars, spinnerVars, fileVars, cookieVars>>

\* SaveConfig returns: the deferred Unlock runs, and the entered method
\* returns SaveConfig's error
SaveReturn(p) ==
    /\ cpc[p] = "save.ret"
    /\ mu' = FALSE
    /\ calls' = Append(calls, [fn |-> cfn[p], config |-> globalConfig, err |-> cerr[p]])
    /\ cpc' = [cpc EXCEPT ![p] = "idle"]
    /\ cfn' = [cfn EXCEPT ![p] = "none"]
    /\ UNCHANGED <<configFile, configOnce, onceBusy, globalConfig, fileLoads, cerr>>
    /\ UNCHANGED <<scanVars, spinnerVars, fileVars, cookieVars>>

NextConfig ==
    \/ \E p \in Callers : CallLoad(p)
    \/ \E p \in Callers : OnceDone(p)
    \/ \E p \in Callers : OnceEnter(p)
    \/ \E p \in Callers : LoadFile(p)
    \/ \E p \in Callers : LoadReturn(p)
    \/ \E p \in Callers : CallSave(p)
    \/ \E p \in Callers : CallSet(p)
    \/ \E p \in Callers : SetLock(p)
    \/ \E p \in Callers : SaveLock(p)
    \/ \E p \in Callers : SaveWrite(p)
    \/ \E p \in Callers : SaveReturn(p)

\* the goroutines keep running while one of them can take a step
SpecConfig == InitConfig /\ [][NextConfig]_vars /\ WF_vars(NextConfig)

\* ---------------------------------------------------------------- spinner
\* sequence s without its element at index n
RemoveAt(s, n) == SubSeq(s, 1, n - 1) \o SubSeq(s, n + 1, Len(s))

InitSpinner == ScanIdle /\ ConfigIdle /\ SpinnerIdle /\ FilesIdle /\ CookiesIdle

\* variant of SpinnerStart: no test of active
SpinnerStartAlways(m) ==
    /\ spos = "idle"
    /\ spinCalls < MaxSpinnerCalls
    /\ spinCalls' = spinCalls + 1
    /\ active' = TRUE
    /\ anims' = Append(anims, [msg |-> m, at |-> "select", i |-> 0])
    /\ started' = m
    /\ updated' = "none"
    /\ UNCHANGED <<spos, screen>>
    /\ UNCHANGED <<scanVars, configVars, fileVars, cookieVars>>

\* Spinner.Start(m): returns at once when active, else launches the goroutine
SpinnerStart(m) ==
    /\ spos = "idle"
    /\ spinCalls < MaxSpinnerCalls
    /\ spinCalls' = spinCalls + 1
    /\ IF active
       THEN UNCHANGED <<active, anims, started, updated>>
       ELSE /\ active' = TRUE
            /\ anims' = Append(anims, [msg |-> m, at |-> "select", i |-> 0])
            /\ started' = m
            /\ updated' = "none"
    /\ UNCHANGED <<spos, screen>>
    /\ UNCHANGED <<scanVars, configVars, fileVars, cookieVars>>

\* Spinner.Update(m): prints the message once when active
SpinnerUpdate(m) ==
    /\ spos = "idle"
    /\ spinCalls < MaxSpinnerCalls
    /\ spinCalls' = spinCalls + 1
    /\ IF active
       THEN /\ screen' = [kind |-> "update", frame |-> "none", msg |-> m]
            /\ updated' = m
       ELSE UNCHANGED <<screen, updated>>
    /\ UNCHANGED <<active, anims, spos, started>>
    /\ UNCHANGED <<scanVars, configVars, fileVars, cookieVars>>

\* Spinner.Stop(): returns at once when inactive, else clears active and
\* reaches the send on done
SpinnerStop ==
    /\ spos = "idle"
    /\ spinCalls < MaxSpinnerCalls
    /\ spinCalls' = spinCalls + 1
    /\ IF active
       THEN active' = FALSE /\ spos' = "stop.send"
       ELSE UNCHANGED <<active, spos>>
    /\ UNCHANGED <<anims, screen, updated, started>>
    /\ UNCHANGED <<scanVars, configVars, fileVars, cookieVars>>

\* s.done <- true meets case <-s.done: the goroutine returns
StopHandOff ==
    /\ spos = "stop.send"
    /\ \E g \in 1..Len(anims) :
           /\ anims[g].at = "select"
           /\ anims' = RemoveAt(anims, g)
    /\ spos' = "stop.clear"
    /\ UNCHANGED <<active, screen, updated, started, spinCalls>>
    /\ UNCHANGED <<scanVars, configVars, fileVars, cookieVars>>

\* Stop clears the line and returns
StopClear ==
    /\ spos = "stop.clear"
    /\ screen' = [kind |-> "clear", frame |-> "none", msg |-> "none"]
    /\ spos' = "idle"
    /\ UNCHANGED <<active, anims, updated, started, spinCalls>>
    /\ UNCHANGED <<scanVars, configVars, fileVars, cookieVars>>

\* the goroutine's select finds no sender on done: default draws a frame
\* with the message captured by Start
AnimDraw(g) ==
    /\ g \in 1..Len(anims)
    /\ anims[g].at = "select"
    /\ spos # "stop.send"
    /\ screen' = [kind |-> "frame", frame |-> frames[anims[g].i + 1], msg |-> anims[g].msg]
    /\ anims' = [anims EXCEPT ![g] = [@ EXCEPT !.at = "sleep",
                                               !.i = (@ + 1) % Len(frames)]]
    /\ UNCHANGED <<active, spos, updated, started, spinCalls>>
    /\ UNCHANGED <<scanVars, configVars, fileVars, cookieVars>>

\* time.Sleep(s.delay) is over
AnimWake(g) ==
    /\ g \in 1..Len(anims)
    /\ anims[g].at = "sleep"
    /\ anims' = [anims EXCEPT ![g] = [@ EXCEPT !.at = "select"]]
    /\ UNCHANGED <<active, spos, screen, updated, started, spinCalls>>
    /\ UNCHANGED <<scanVars, configVars, fileVars, cookieVars>>

AnimStep == \E g \in 1..Len(anims) : AnimDraw(g) \/ AnimWake(g)

NextSpinner ==
    \/ \E m \in Messages : SpinnerStart(m)
    \/ \E m \in Messages : SpinnerUpdate(m)
    \/ SpinnerStop
    \/ StopHandOff
    \/ StopClear
    \/ \E g \in 1..Len(anims) : AnimDraw(g)
    \/ \E g \in 1..Len(anims) : AnimWake(g)

\* the goroutines are scheduled, and a caller inside Stop keeps running
SpecSpinner ==
    /\ InitSpinner
    /\ [][NextSpinner]_vars
    /\ WF_vars(AnimStep)
    /\ WF_vars(StopHandOff)
    /\ WF_vars(StopClear)

\* ------------------------------------------------------------ file access
DotDot == <<".", ".">>
SiblingDir == <<"w", "2">>
SourceFile == <<"a", ".", "c">>
PlainFile == <<"x">>

\* components of the file names tried
PathParts == {DotDot, SiblingDir, SourceFile, PlainFile}

FileNames == UNION {[1..n -> PathParts] : n \in 1..MaxPathParts}

\* filepath.Clean on the components of a rooted path: ".." drops the
\* component before it and is dropped at the root
RECURSIVE cleanParts(_, _)
cleanParts(parts, kept) ==
    IF parts = <<>> THEN kept
    ELSE IF Head(parts) = <<".">> \/ Head(parts) = <<>> THEN cleanParts(Tail(parts), kept)
    ELSE IF Head(parts) = DotDot
         THEN cleanParts(Tail(parts),
                         IF kept = <<>> THEN kept ELSE SubSeq(kept, 1, Len(kept) - 1))
    ELSE cleanParts(Tail(parts), Append(kept, Head(parts)))

\* the rooted path with the given components, as a string
RECURSIVE renderPath(_)
renderPath(parts) ==
    IF parts = <<>> THEN <<>>
    ELSE <<"/">> \o Head(parts) \o renderPath(Tail(parts))

\* filepath.Join(dir, name) for the directory with components dirParts
filepathJoin(dirParts, nameParts) ==
    LET kept == cleanParts(dirParts \o nameParts, <<>>)
    IN  IF kept = <<>> THEN <<"/">> ELSE renderPath(kept)

\* filepath.Base of a file name
filepathBase(nameParts) == nameParts[Len(nameParts)]

\* filepath.Ext: the suffix of the last component from its last dot
filepathExt(nameParts) ==
    LET base == filepathBase(nameParts)
        dots == {k \in 1..Len(base) : base[k] = "."}
    IN  IF dots = {} THEN <<>> ELSE SubSeq(base, SetMax(dots), Len(base))

isAllowedExtension(ext) == ext \in allowedExts

isSpecialFile(nameParts) ==
    \E special \in specialFiles :
        Contains(ToLower(filepathBase(nameParts)), ToLower(special))

\* the directories on disk: the root, the working directory, a directory
\* beside it whose name begins with the working directory's, and one inside
DiskDirs == {<<"/">>, renderPath(<<<<"w">>>>), renderPath(<<SiblingDir>>),
             renderPath(<<<<"w">>, SiblingDir>>)}

\* the files on disk: a source file and a plain file in every directory
DiskFiles ==
    {filepathJoin(<<>>, dir \o <<f>>) :
        dir \in {<<>>, <<<<"w">>>>, <<SiblingDir>>, <<<<"w">>, SiblingDir>>},
        f \in {SourceFile, PlainFile}}

\* the content of a file: every file holds its own path
diskContent(path) == path

\* the security check of ReadFile
accessDenied(path) == ~HasPrefix(path, workingDir)

InitFiles ==
    /\ ScanIdle
    /\ ConfigIdle
    /\ SpinnerIdle
    /\ fileName \in FileNames
    /\ fullPath = <<>>
    /\ fileRet = [content |-> <<>>, err |-> "nil"]
    /\ touched = {}
    /\ fpc = "call"
    /\ CookiesIdle

\* ReadFile: join the name to the working directory and make the security check
ReadFileCheck ==
    /\ fpc = "call"
    /\ fullPath' = filepathJoin(<<<<"w">>>>, fileName)
    /\ IF accessDenied(fullPath')
       THEN /\ fileRet' = [content |-> <<>>, err |-> "access denied"]
            /\ fpc' = "done"
       ELSE /\ fpc' = "stat"
            /\ UNCHANGED fileRet
    /\ UNCHANGED <<fileName, touched>>
    /\ UNCHANGED <<scanVars, configVars, spinnerVars, cookieVars>>

\* ReadFile: os.Stat, the size limit and the file type
ReadFileStat ==
    /\ fpc = "stat"
    /\ touched' = touched \cup {fullPath}
    /\ IF fullPath \notin DiskDirs \cup DiskFiles
       THEN /\ fileRet' = [content |-> <<>>, err |-> "file not found"]
            /\ fpc' = "done"
       ELSE IF Len(diskContent(fullPath)) > maxFileSize
       THEN /\ fileRet' = [content |-> <<>>, err |-> "file too large"]
            /\ fpc' = "done"
       ELSE IF ~isAllowedExtension(ToLower(filepathExt(fileName))) /\ ~isSpecialFile(fileName)
       THEN /\ fileRet' = [content |-> <<>>, err |-> "file type not allowed"]
            /\ fpc' = "done"
       ELSE /\ fpc' = "read"
            /\ UNCHANGED fileRet
    /\ UNCHANGED <<fileName, fullPath>>
    /\ UNCHANGED <<scanVars, configVars, spinnerVars, cookieVars>>

\* ReadFile: os.ReadFile and return
ReadFileRead ==
    /\ fpc = "read"
    /\ touched' = touched \cup {fullPath}
    /\ fileRet' = IF fullPath \in DiskFiles
                  THEN [content |-> diskContent(fullPath), err |-> "nil"]
                  ELSE [content |-> <<>>, err |-> "failed to read file"]
    /\ fpc' = "done"
    /\ UNCHANGED <<fileName, fullPath>>
    /\ UNCHANGED <<scanVars, configVars, spinnerVars, cookieVars>>

NextFiles ==
    \/ ReadFileCheck
    \/ ReadFileStat
    \/ ReadFileRead

SpecFiles == InitFiles /\ [][NextFiles]_vars

\* ---------------------------------------------------------------- cookies
\* a file system call succeeds or fails
IoOutcomes == {"ok", "fail"}

InitCookies ==
    /\ ScanIdle
    /\ ConfigIdle
    /\ SpinnerIdle
    /\ FilesIdle
    /\ cookiesFile \in CookieContents \cup {"absent"}
    /\ backups = {}
    /\ kpc = "idle"
    /\ kdata = "none"
    /\ kerr = "nil"
    /\ overwrote = {}
    /\ ensureCalls = 0

\* EnsureCookiesFile: MkdirAll, then Stat chooses between creating and
\* validating
EnsureCookiesFile ==
    /\ kpc \in {"idle", "done"}
    /\ ensureCalls < MaxEnsureCalls
    /\ ensureCalls' = ensureCalls + 1
    /\ kdata' = "none"
    /\ \E mkdir \in IoOutcomes :
           IF mkdir = "fail"
           THEN kerr' = "mkdir" /\ kpc' = "done"
           ELSE /\ kerr' = "nil"
                /\ kpc' = IF cookiesFile = "absent" THEN "create" ELSE "validate"
    /\ UNCHANGED <<cookiesFile, backups, overwrote>>
    /\ UNCHANGED <<scanVars, configVars, spinnerVars, fileVars>>

\* validateCookiesFile: read, test for empty, parse, validate the content
validateCookiesFile ==
    /\ kpc = "validate"
    /\ \E read \in IoOutcomes :
           IF read = "fail" \/ cookiesFile = "absent"
           THEN kerr' = "read" /\ kpc' = "done"
           ELSE IF cookiesFile = "empty"
           THEN kpc' = "create" /\ UNCHANGED kerr
           ELSE IF ~parsesAsCookies(cookiesFile)
           THEN kpc' = "backup" /\ UNCHANGED kerr
           ELSE kerr' = "nil" /\ kpc' = "done"
    /\ UNCHANGED <<cookiesFile, backups, kdata, overwrote, ensureCalls>>
    /\ UNCHANGED <<scanVars, configVars, spinnerVars, fileVars>>

\* backupAndRecreate: read the file, write the backup when the read
\* succeeded (the error of the write is dropped), go on to recreate
backupAndRecreate ==
    /\ kpc = "backup"
    /\ \E read \in IoOutcomes : \E write \in IoOutcomes :
           IF read = "ok"
           THEN /\ kdata' = cookiesFile
                /\ backups' = IF write = "ok" THEN backups \cup {cookiesFile} ELSE backups
           ELSE UNCHANGED <<kdata, backups>>
    /\ kpc' = "create"
    /\ UNCHANGED <<cookiesFile, kerr, overwrote, ensureCalls>>
    /\ UNCHANGED <<scanVars, configVars, spinnerVars, fileVars>>

\* createEmptyCookiesFile: write the empty cookie array over the file
createEmptyCookiesFile ==
    /\ kpc = "create"
    /\ \E write \in IoOutcomes :
           IF write = "ok"
           THEN /\ overwrote' = IF cookiesFile = "absent" THEN overwrote
                                ELSE overwrote \cup {cookiesFile}
                /\ cookiesFile' = "noCookies"
                /\ kerr' = "nil"
           ELSE /\ kerr' = "create"
                /\ UNCHANGED <<cookiesFile, overwrote>>
    /\ kpc' = "done"
    /\ UNCHANGED <<backups, kdata, ensureCalls>>
    /\ UNCHANGED <<scanVars, configVars, spinnerVars, fileVars>>

\* the file is rewritten outside the cookie manager between two calls
CookiesFileChanged ==
    /\ kpc = "done"
    /\ ensureCalls < MaxEnsureCalls
    /\ cookiesFile' \in CookieContents \ {cookiesFile}
    /\ kpc' = "idle"
    /\ UNCHANGED <<backups, kdata, kerr, overwrote, ensureCalls>>
    /\ UNCHANGED <<scanVars, configVars, spinnerVars, fileVars>>

NextCookies ==
    \/ EnsureCookiesFile
    \/ validateCookiesFile
    \/ backupAndRecreate
    \/ createEmptyCookiesFile
    \/ CookiesFileChanged

SpecCookies == InitCookies /\ [][NextCookies]_vars

\* ---------------------------------------------------------------- helpers
Done == pc = "done"

\* line k of the scanned text reached the result
isEmitted(k) == \E n \in 1..Len(emitted) : emitted[n] = k

\* the segment appended for line k
segOf(k) == result[CHOOSE n \in 1..Len(emitted) : emitted[n] = k]

isProse(seg) == ~seg.IsCode /\ seg.Language = <<>>

\* texts of a segment sequence
Texts(segs) == [n \in 1..Len(segs) |-> segs[n].Text]

isTrigger(ls, k) == isLanguageDeclaration(TrimSpace(ls[k]))

\* Copy/Edit lines inside the two-line window behind a trigger
isWindowLabel(ls, k) ==
    /\ isCopyEdit(ls[k])
    /\ k > 1
    /\ \/ isTrigger(ls, k - 1)
       \/ k > 2 /\ isCopyEdit(ls[k - 1]) /\ isTrigger(ls, k - 2)

WindowLabels(ls) == {k \in 1..Len(ls) : isWindowLabel(ls, k)}

Triggers(ls) == {k \in 1..Len(ls) : isTrigger(ls, k)}

\* the subsequence of ls at the indices not in drop
RECURSIVE KeepFrom(_, _, _)
KeepFrom(ls, k, drop) ==
    IF k > Len(ls) THEN <<>>
    ELSE IF k \in drop THEN KeepFrom(ls, k + 1, drop)
    ELSE <<ls[k]>> \o KeepFrom(ls, k + 1, drop)

\* a line that is neither blank, fence, trigger nor label
isPlain(line) ==
    /\ TrimSpace(line) # <<>>
    /\ ~parseFenceStart(line).ok
    /\ ~isLanguageDeclaration(TrimSpace(line))
    /\ ~isCopyEdit(line)

\* line a is the first fence line of ls and no trigger precedes it
isFirstFence(ls, a) ==
    /\ parseFenceStart(ls[a]).ok
    /\ \A b \in 1..(a - 1) : ~parseFenceStart(ls[b]).ok /\ ~isTrigger(ls, b)

\* index of the first tag-less fence line behind a, or Len(ls)+1
closerOf(ls, a) ==
    LET cs == {c \in (a + 1)..Len(ls) : isFenceEnd(ls[c])}
    IN  IF cs = {} THEN Len(ls) + 1 ELSE SetMin(cs)

\* ------------------------------------------------------------------ claims

\* C1: the empty reply yields zero segments.
C1_EmptyYieldsNoSegments == (Done /\ raw = <<>>) => result = <<>>

\* C2: a reply that is only the preamble artifact line is preprocessed to the
\* empty string and yields zero segments.
C2_ArtifactOnlyYieldsNothing ==
    (Done /\ isThoughtLine(TrimSpace(raw))) => (response = <<>> /\ result = <<>>)

\* C3: every plain line between an opening fence with tag L and the next
\* tag-less fence line is emitted as code with language L, and a plain line
\* right behind the closing fence is emitted as prose.
C3_FencedLinesAreCode ==
    Done =>
        \A a \in 1..Len(lines) :
            isFirstFence(lines, a) =>
                /\ \A k \in (a + 1)..(closerOf(lines, a) - 1) :
                       isPlain(lines[k]) =>
                           /\ isEmitted(k)
                           /\ segOf(k).IsCode
                           /\ segOf(k).Language = parseFenceStart(lines[a]).lang
                /\ \A k \in {closerOf(lines, a) + 1} \cap (1..Len(lines)) :
                       isPlain(lines[k]) => isEmitted(k) /\ isProse(segOf(k))

\* C4: no emitted segment carries an explicit fence line as its text.
C4_FenceLinesNeverEmitted ==
    \A n \in 1..Len(result) : ~parseFenceStart(result[n].Text).ok

\* C5: behind an opening fence that is never closed, every plain line up to
\* the end of the input is emitted as code.
C5_UnterminatedFenceRunsToEnd ==
    Done =>
        \A a \in 1..Len(lines) :
            (isFirstFence(lines, a) /\ closerOf(lines, a) = Len(lines) + 1) =>
                \A k \in (a + 1)..Len(lines) :
                    isPlain(lines[k]) => isEmitted(k) /\ segOf(k).IsCode

\* the end-of-block test holds on line k of the scanned text
closesAt(k) == k \in 1..(Len(lines) - 1) /\ shouldEndCodeBlock(lines, k)

\* line k is reached with a block open: the line before it was emitted as code
openBefore(k) == k > 1 /\ isEmitted(k - 1) /\ segOf(k - 1).IsCode

\* C6 as stated: when the explanation heuristic fires inside an implicit
\* block, the blank line is emitted with the block's code state and only the
\* following line is prose.
C6_BlankKeepsCodeState ==
    Done =>
        \A k \in 1..Len(lines) :
            (closesAt(k) /\ openBefore(k)) =>
                /\ isEmitted(k)
                /\ segOf(k).IsCode
                /\ segOf(k).Language = segOf(k - 1).Language
                /\ isEmitted(k + 1)
                /\ isProse(segOf(k + 1))

\* C6 amended: when the explanation heuristic fires, the blank line that
\* triggered the lookahead is itself emitted as prose with empty language,
\* and so is the explanation line behind it.
C6_BlankEmittedAsProse ==
    Done =>
        \A k \in 1..Len(lines) :
            closesAt(k) =>
                /\ isEmitted(k)
                /\ isProse(segOf(k))
                /\ isEmitted(k + 1)
                /\ isProse(segOf(k + 1))

C6_Witness ==
    /\ Done
    /\ \E k \in 1..Len(lines) :
           closesAt(k) /\ openBefore(k) /\ isProse(segOf(k)) /\ isProse(segOf(k + 1))

\* C7 as stated: emitted segments plus Copy/Edit lines excluded behind a
\* trigger add up to the number of lines of the preprocessed input.
C7_CountWithoutTriggers ==
    Done => Len(result) + Cardinality(WindowLabels(lines)) = Len(lines)

\* C7 amended: emitted segments, excluded Copy/Edit lines and the trigger
\* lines themselves add up to the number of lines of the preprocessed input.
C7_CountWithTriggers ==
    Done =>
        Len(result) + Cardinality(WindowLabels(lines)) + Cardinality(Triggers(lines))
            = Len(lines)

C7_Witness ==
    /\ Done
    /\ Triggers(lines) # {}
    /\ WindowLabels(lines) # {}
    /\ \E n \in 1..Len(result) : isCopyEdit(result[n].Text)

\* C8 as stated: the newline-join of the segment texts is the preprocessed
\* input with exactly the excluded Copy/Edit lines removed.
C8_JoinWithoutLabels ==
    Done => Join(Texts(result)) = Join(KeepFrom(lines, 1, WindowLabels(lines)))

\* C8 amended: the newline-join of the segment texts is the preprocessed
\* input with exactly the excluded Copy/Edit lines and the trigger lines
\* removed.
C8_JoinWithoutLabelsAndTriggers ==
    Done =>
        Join(Texts(result))
            = Join(KeepFrom(lines, 1, WindowLabels(lines) \cup Triggers(lines)))

C8_Witness ==
    /\ Done
    /\ Triggers(lines) # {}
    /\ WindowLabels(lines) # {}
    /\ Len(result) >= 2
    /\ \E n \in 1..Len(result) : result[n].Text # TrimSpace(result[n].Text)

\* C9: classifying the newline-join of the segment texts again yields as many
\* segments as the first classification.
C9_SecondPassSameCount ==
    Done => Len(ProcessResponseWithCodeHighlight(Join(Texts(result)))) = Len(result)

\* C10: a segment that is not code has the empty language.
C10_ProseHasNoLanguage ==
    \A n \in 1..Len(result) : ~result[n].IsCode => result[n].Language = <<>>

C10_Witness ==
    /\ Done
    /\ \E n \in 1..Len(result) : \E m \in (n + 1)..Len(result) :
           /\ result[n].IsCode
           /\ result[n].Language # <<>>
           /\ ~result[m].IsCode

\* C11: a call of the classifier returns what every earlier call on the same
\* text returned, whatever was classified in between.
C11_SameInputSameOutput ==
    /\ \A k \in 1..Len(history) : \A m \in 1..Len(history) :
           history[k].text = history[m].text => history[k].out = history[m].out
    /\ Done =>
           \A k \in 1..Len(history) :
               history[k].text = response => history[k].out = result

C11_Witness ==
    /\ Done
    /\ Len(history) = 2
    /\ history[1].text = response
    /\ history[2].text # response
    /\ \E n \in 1..Len(history[2].out) : history[2].out[n].IsCode
    /\ \E n \in 1..Len(result) : ~result[n].IsCode

\* C12: every call of the classifier returns, and the returned sequence is
\* no longer than the number of lines of its text.
C12_TerminatesWithinLines ==
    /\ <>Done
    /\ [](Done => Len(result) <= Len(lines))

C12_Witness ==
    /\ Done
    /\ Len(lines) >= 3
    /\ Len(result) >= 1
    /\ Len(result) < Len(lines)

\* line k exists and is a Copy/Edit label
isLabel(ls, k) == k \in 1..Len(ls) /\ isCopyEdit(ls[k])

\* line k exists and is neither a label nor a trigger
isOther(ls, k) == k \in 1..Len(ls) /\ ~isCopyEdit(ls[k]) /\ ~isTrigger(ls, k)

\* C13: behind a trigger at line k the labels at k+1 and k+2 are excluded
\* while they follow one another, the first line that is no label ends the
\* exclusion, and a third label at k+3 is emitted.
C13_TwoLineWindow ==
    Done =>
        \A k \in Triggers(lines) :
            /\ isLabel(lines, k + 1) => ~isEmitted(k + 1)
            /\ (isLabel(lines, k + 1) /\ isLabel(lines, k + 2)) => ~isEmitted(k + 2)
            /\ (isLabel(lines, k + 1) /\ isLabel(lines, k + 2) /\ isLabel(lines, k + 3))
                   => isEmitted(k + 3)
            /\ isOther(lines, k + 1) => isEmitted(k + 1)
            /\ (isOther(lines, k + 1) /\ isLabel(lines, k + 2)) => isEmitted(k + 2)
            /\ (isLabel(lines, k + 1) /\ isOther(lines, k + 2)) => isEmitted(k + 2)

C13_Witness ==
    /\ Done
    /\ \E k \in Triggers(lines) :
           /\ isLabel(lines, k + 1) /\ isLabel(lines, k + 2) /\ isLabel(lines, k + 3)
           /\ ~isEmitted(k + 1)
           /\ ~isEmitted(k + 2)
           /\ isEmitted(k + 3)

\* line k lies in the two lines behind a trigger
inWindow(ls, k) == (k > 1 /\ isTrigger(ls, k - 1)) \/ (k > 2 /\ isTrigger(ls, k - 2))

\* C14: a Copy/Edit line outside the two-line window behind a trigger is
\* emitted; only lines inside such a window are ever excluded.
C14_LabelsOutsideWindowEmitted ==
    Done =>
        \A k \in 1..Len(lines) :
            (isCopyEdit(lines[k]) /\ ~inWindow(lines, k)) => isEmitted(k)

C14_Witness ==
    /\ Done
    /\ \E k \in 1..Len(lines) :
           /\ isCopyEdit(lines[k])
           /\ ~inWindow(lines, k)
           /\ isEmitted(k)
           /\ segOf(k).IsCode
    /\ \E k \in 1..Len(lines) : isCopyEdit(lines[k]) /\ ~isEmitted(k)

\* the lines of the trimmed reply
trimmedLines == Split(TrimSpace(raw))

\* printResponse has handed the text over to the classifier
Preprocessed == pc \in {"call", "loop", "done"}

\* the first line of the trimmed reply matches the preamble pattern
firstIsPreamble == isThoughtLine(TrimSpace(trimmedLines[1]))

\* C15: a first line that does not match the preamble pattern is kept: the
\* classifier receives the trimmed reply unchanged.
C15_NonMatchingFirstLineKept ==
    (Preprocessed /\ ~firstIsPreamble) => response = TrimSpace(raw)

\* C16: when the first line matches the preamble pattern and more lines
\* follow, the classifier scans exactly the remaining lines, unchanged.
C16_OnlyFirstLineDropped ==
    (pc \in {"loop", "done"} /\ firstIsPreamble /\ Len(trimmedLines) > 1)
        => lines = Tail(trimmedLines)

C16_Witness ==
    /\ Done
    /\ firstIsPreamble
    /\ Len(trimmedLines) > 2
    /\ isThoughtLine(lines[1])
    /\ lines = Tail(trimmedLines)
    /\ \E n \in 1..Len(result) : isThoughtLine(result[n].Text)

\* the first line behind trigger k that reaches the result, 0 if there is none
nextEmitted(k) ==
    LET later == {m \in (k + 1)..Len(lines) : isEmitted(m)}
    IN  IF later = {} THEN 0 ELSE SetMin(later)

\* C17 as stated: a bare-language trigger line is itself emitted, as code with
\* the language it opens.
C17_TriggerLineEmitted ==
    Done =>
        \A k \in Triggers(lines) :
            /\ isEmitted(k)
            /\ segOf(k).IsCode
            /\ segOf(k).Language = TrimSpace(lines[k])

\* C17 amended: a bare-language trigger line is not emitted; the first line
\* emitted behind it carries the newly opened state (code, with the trimmed
\* trigger line as language) unless the block is closed on that very line.
C17_TriggerOpensForNextLine ==
    Done =>
        \A k \in Triggers(lines) :
            /\ ~isEmitted(k)
            /\ (nextEmitted(k) # 0 /\ ~closesAt(nextEmitted(k))) =>
                   /\ segOf(nextEmitted(k)).IsCode
                   /\ segOf(nextEmitted(k)).Language
                          = TrimSpace(lines[SetMax({t \in Triggers(lines) : t < nextEmitted(k)})])

C17_Witness ==
    /\ Done
    /\ \E k \in Triggers(lines) :
           /\ k > 1
           /\ isEmitted(k - 1)
           /\ ~segOf(k - 1).IsCode
           /\ ~isEmitted(k)
           /\ isLabel(lines, k + 1)
           /\ nextEmitted(k) = k + 2
           /\ segOf(k + 2).IsCode
           /\ segOf(k + 2).Language = TrimSpace(lines[k])

isBlank(line) == TrimSpace(line) = <<>>

\* line k is a blank line whose next line qualifies as explanation: it is not
\* blank, not indented, not a trigger, and carries an explanation marker
qualifiesAt(ls, k) ==
    /\ k \in 1..(Len(ls) - 1)
    /\ isBlank(ls[k])
    /\ ~isBlank(ls[k + 1])
    /\ ~HasPrefix(ls[k + 1], <<" ", " ", " ", " ">>)
    /\ ~HasPrefix(ls[k + 1], <<"\t">>)
    /\ ~isTrigger(ls, k + 1)
    /\ isExplanationLine(TrimSpace(ls[k + 1]))

\* the last trigger line before line m
lastTrigger(m) == SetMax({t \in Triggers(lines) : t < m})

\* C18: behind a trigger every emitted line is code, with the trigger's
\* language, as long as no blank line with a qualifying lookahead has been
\* met; non-blank lines and a blank last line never close the block.
C18_ImplicitBlockStaysOpen ==
    Done =>
        \A k \in Triggers(lines) : \A m \in (k + 1)..Len(lines) :
            (isEmitted(m) /\ \A j \in (k + 1)..m : ~qualifiesAt(lines, j)) =>
                /\ segOf(m).IsCode
                /\ segOf(m).Language = TrimSpace(lines[lastTrigger(m)])

C18_Witness ==
    /\ Done
    /\ \E k \in Triggers(lines) :
           /\ Len(lines) >= k + 3
           /\ \A j \in (k + 1)..Len(lines) : ~qualifiesAt(lines, j) /\ isEmitted(j)
           /\ isBlank(lines[k + 1])
           /\ ~isBlank(lines[k + 2])
           /\ isBlank(lines[Len(lines)])
           /\ \A j \in (k + 1)..Len(lines) : segOf(j).IsCode

\* the line begins with an explanation marker
beginsWithMarker(line) ==
    \E p \in 1..Len(explanationPatterns) : HasPrefix(ToLower(line), explanationPatterns[p])

\* C19: an open implicit block is closed at a blank line only when the line
\* behind it begins with an explanation marker.
C19_ClosesOnlyOnLeadingMarker ==
    Done =>
        \A k \in 1..(Len(lines) - 1) :
            (openBefore(k) /\ isBlank(lines[k]) /\ isEmitted(k) /\ ~segOf(k).IsCode)
                => beginsWithMarker(TrimSpace(lines[k + 1]))

\* line k is reached with a block open: the line before it is a trigger, a
\* skipped label, or was emitted as code
openAt(k) == k > 1 /\ (~isEmitted(k - 1) \/ segOf(k - 1).IsCode)

\* C20: at a blank line inside an implicit block, a next line that is
\* indented by four spaces or a tab, or is a trigger, leaves the block open:
\* the blank line is emitted as code with the current language, and so is an
\* indented next line.
C20_IndentedOrTriggerKeepsOpen ==
    Done =>
        \A k \in 1..(Len(lines) - 1) :
            (/\ openAt(k)
             /\ isBlank(lines[k])
             /\ \/ HasPrefix(lines[k + 1], <<" ", " ", " ", " ">>)
                \/ HasPrefix(lines[k + 1], <<"\t">>)
                \/ isTrigger(lines, k + 1)) =>
                /\ isEmitted(k)
                /\ segOf(k).IsCode
                /\ segOf(k).Language = TrimSpace(lines[lastTrigger(k)])
                /\ (~isTrigger(lines, k + 1) /\ ~isBlank(lines[k + 1])) =>
                       isEmitted(k + 1) /\ segOf(k + 1).IsCode

C20_Witness ==
    /\ Done
    /\ \E k \in 1..(Len(lines) - 1) :
           /\ openAt(k)
           /\ isBlank(lines[k])
           /\ HasPrefix(lines[k + 1], <<"\t">>)
           /\ isExplanationLine(TrimSpace(lines[k + 1]))
           /\ segOf(k).IsCode
           /\ segOf(k + 1).IsCode

\* line k is the first line of a run of blank lines
firstOfRun(ls, k) == k \in 1..Len(ls) /\ isBlank(ls[k]) /\ (k = 1 \/ ~isBlank(ls[k - 1]))

\* index of the first non-blank line behind line k, 0 if there is none
nextNonBlank(ls, k) ==
    LET later == {n \in (k + 1)..Len(ls) : ~isBlank(ls[n])}
    IN  IF later = {} THEN 0 ELSE SetMin(later)

\* line n is a lookahead line that qualifies as explanation
qualifyingLine(ls, n) ==
    /\ n \in 1..Len(ls)
    /\ ~isBlank(ls[n])
    /\ ~HasPrefix(ls[n], <<" ", " ", " ", " ">>)
    /\ ~HasPrefix(ls[n], <<"\t">>)
    /\ ~isTrigger(ls, n)
    /\ isExplanationLine(TrimSpace(ls[n]))

\* C21: inside an implicit block, a run of two or more blank lines followed by
\* a qualifying explanation line closes the block at its first blank line: the
\* block is closed while the rest of the run is scanned, and every blank line
\* of the run behind the first is emitted as prose.
C21_RunClosesAtFirstBlank ==
    pc \in {"loop", "done"} =>
        \A k \in 1..Len(lines) :
            (/\ firstOfRun(lines, k)
             /\ openAt(k)
             /\ nextNonBlank(lines, k) > k + 1
             /\ qualifyingLine(lines, nextNonBlank(lines, k))) =>
                \A j \in (k + 1)..(nextNonBlank(lines, k) - 1) :
                    /\ i = j => ~inCodeBlock
                    /\ i > j => isEmitted(j) /\ ~segOf(j).IsCode

\* C22: a line that is a vocabulary word in any case is a trigger, and every
\* code segment emitted behind it carries the vocabulary entry itself, in
\* lower case, as its language.
C22_LanguageIsLowerCaseEntry ==
    Done =>
        /\ \A k \in 1..Len(lines) :
               ToLower(TrimSpace(lines[k])) = GoLine => (isTrigger(lines, k) /\ ~isEmitted(k))
        /\ \A m \in 1..Len(lines) :
               (isEmitted(m) /\ segOf(m).IsCode) =>
                   segOf(m).Language = ToLower(TrimSpace(lines[lastTrigger(m)]))

\* number of label lines right behind line k, two at most
labelsBehind(ls, k) ==
    IF isLabel(ls, k + 1) THEN (IF isLabel(ls, k + 2) THEN 2 ELSE 1) ELSE 0

\* the scanner stands on a vocabulary-only line while a block is open
onTriggerInBlock ==
    /\ pc = "loop"
    /\ i <= Len(lines)
    /\ skipNext = 0
    /\ inCodeBlock
    /\ isTrigger(lines, i)

\* C23: a vocabulary-only line scanned while a block is open keeps the block
\* open, makes its own word the current language, and arms the exclusion of
\* the Copy/Edit labels on the two lines behind it; nothing is emitted for it.
C23_TriggerInsideOpenBlock ==
    [][onTriggerInBlock =>
          /\ inCodeBlock'
          /\ codeLang' = TrimSpace(lines[i])
          /\ skipNext' = labelsBehind(lines, i)
          /\ result' = result
          /\ i' = i + 1]_vars

C23_Witness ==
    /\ Done
    /\ \E k \in Triggers(lines) :
           /\ k > 1
           /\ isTrigger(lines, k - 1)
           /\ TrimSpace(lines[k - 1]) # TrimSpace(lines[k])
           /\ isLabel(lines, k + 1)
           /\ ~isEmitted(k + 1)
           /\ isEmitted(k + 2)
           /\ segOf(k + 2).IsCode
           /\ segOf(k + 2).Language = TrimSpace(lines[k])

\* C24: the segment texts are the input lines at strictly increasing line
\* indices, each copied as it stands, and every blank input line is the source
\* of exactly one segment.
C24_VerbatimSubsequence ==
    /\ Len(emitted) = Len(result)
    /\ \A n \in 1..Len(result) :
           /\ emitted[n] \in 1..Len(lines)
           /\ result[n].Text = lines[emitted[n]]
           /\ n > 1 => emitted[n - 1] < emitted[n]
    /\ Done =>
           \A k \in 1..Len(lines) :
               isBlank(lines[k]) => Cardinality({n \in 1..Len(result) : emitted[n] = k}) = 1

C24_Witness ==
    /\ Done
    /\ \E k \in 1..Len(lines) : ~isEmitted(k)
    /\ \E n \in 1..Len(result) : result[n].Text # TrimSpace(result[n].Text)
    /\ \E n \in 1..Len(result) : \E m \in (n + 1)..Len(result) :
           isBlank(result[n].Text) /\ isBlank(result[m].Text)

\* C25: every call of SetValue returns.
C25_SetValueReturns ==
    \A p \in Callers : (cfn[p] = "SetValue") ~> (cfn[p] = "none")

\* the Load calls among the finished calls
loadCalls == SelectSeq(calls, LAMBDA c : c.fn = "LoadDynamicConfig")

\* C29: the file is loaded at most once, every call of LoadDynamicConfig
\* returns what the first one returned, and when the file could not be read
\* or parsed every call returns the default configuration with an error.
C29_EveryLoadReturnsSame ==
    /\ fileLoads <= 1
    /\ \A a \in 1..Len(loadCalls) :
           /\ loadCalls[a].config = loadCalls[1].config
           /\ loadCalls[a].err = loadCalls[1].err

\* C26: once Update(m) has printed on an active spinner, every frame drawn
\* afterwards shows m.
C26_FramesShowUpdate ==
    (screen.kind = "frame" /\ updated # "none") => screen.msg = updated

\* C27: with one caller, at most one animation goroutine exists, it belongs
\* to the last Start while the spinner is active, none is left once Stop has
\* returned, and every Stop that reaches the send on done returns.
C27_OneAnimationStopReturns ==
    /\ [](Len(anims) <= 1)
    /\ []((active /\ spos = "idle") =>
              (Len(anims) = 1 /\ anims[1].msg = started))
    /\ []((~active /\ spos = "idle") => anims = <<>>)
    /\ (spos = "stop.send") ~> (spos = "idle" /\ anims = <<>>)

C27_Witness ==
    /\ spos = "idle"
    /\ active
    /\ screen.kind = "clear"
    /\ spinCalls >= 3
    /\ Len(anims) = 1
    /\ anims[1].msg = started
    /\ anims[1].i = 0

\* the path lies inside the working directory
insideWorkingDir(path) == path = workingDir \/ HasPrefix(path, workingDir \o <<"/">>)

\* C28: a file name whose joined, cleaned path is not inside the working
\* directory makes ReadFile return the access-denied error, with no content,
\* before the file has been touched.
C28_OutsideIsDenied ==
    (fpc \in {"stat", "read", "done"} /\ ~insideWorkingDir(fullPath)) =>
        /\ touched = {}
        /\ fileRet.content = <<>>
        /\ fpc = "done"
        /\ fileRet.err = "access denied"

\* C30: every unparsable content that was replaced by the empty cookie array
\* had been written to a backup file before.
C30_BackupBeforeOverwrite ==
    \A data \in overwrote : (data # "empty" /\ ~parsesAsCookies(data)) => data \in backups

====
